---- MODULE Spec2Model ----
\* The ticket store of jirre (src/jirre/main.py): the ticket table, the FTS5
\* shadow index kept by the two triggers of setup_db, and the command
\* handlers new / todo / doing / done / ls / sync, one invocation of main()
\* per step; and two invocations running against the same store at once,
\* one store transaction per step.
EXTENDS Integers, Sequences, FiniteSets, TLC

VARIABLES schema,      \* the tables and triggers the database file holds
          ticket,      \* the rows of table `ticket`, in rowid order
          ticket_fts,  \* the index `ticket_fts`: its postings [rowid, term,
                       \* col] and its token totals
          clock,       \* the epoch second of the latest writing invocation
          writes,      \* INSERT and UPDATE statements committed so far
          handler,     \* the handler main() dispatched to last
          result,      \* what that invocation did: outcome, the snapshot the
                       \* store operation returned, the listing printed,
                       \* the exit status of the process
          procs,       \* the invocations running at once: for each, the
                       \* command, the place reached in its handler and
                       \* what it holds
          origin       \* the table and index those invocations started on

vars == <<schema, ticket, ticket_fts, clock, writes, handler, result, procs,
          origin>>

----------------------------------------------------------------------------
\* Bounds of the model.
MaxTickets == 2     \* rows the table may hold
MaxSec == 2         \* last epoch second the clock reaches
MaxWrites == 3      \* INSERT and UPDATE statements in one run

----------------------------------------------------------------------------
\* Values.  SQL NULL / Python None is the empty tuple and a present nullable
\* value v is <<v>>; non-nullable columns hold the value itself.
NULL == << >>
Some(v) == <<v>>

TODO == "TODO"
DOING == "DOING"
DONE == "DONE"

\* Python truthiness of an optional string (`if args.assign_to:`).
Truthy(x) == x # NULL /\ x[1] # ""

\* datetime.datetime.now(): an epoch second and whether a sub-second part
\* is present.  The clock starts after the epoch.  Only the second is ever
\* stored, so the order of invocations is kept to the second.
Fracs == {0, 1}
Times == {[sec |-> s, frac |-> f] : s \in 1..MaxSec, f \in Fracs}

\* int(val.timestamp()): the sub-second part is dropped.
adapt_datetime_epoch(val) == val.sec

\* datetime.datetime.fromtimestamp(int): a datetime on a whole second.
fromtimestamp(s) == [sec |-> s, frac |-> 0]

----------------------------------------------------------------------------
\* Inputs of the command line.
Users == {"alice", "bob"}                    \* os.getlogin()
AssignArgs == {NULL, Some(""), Some("bob smith")}  \* --assign_to (default None)
NotesArgs == {"", "fixed"}                   \* --notes (default "")
ConfigProject == "core"                      \* config["project"]

\* new NAME [--description D] [--project P] [--assign_to A], the options
\* at their defaults ("", "", None) or given.
NewArgs ==
    {[name |-> "login", description |-> "", project |-> "", assign_to |-> NULL],
     [name |-> "login", description |-> "", project |-> "", assign_to |-> Some("")],
     [name |-> "deploy", description |-> "ci", project |-> "web",
      assign_to |-> Some("bob smith")]}

\* The .jire.config the invocation finds: none in the directory chain, or
\* a file whose section Project holds some of the keys.
ConfigKeys == {"name", "db_path"}
ConfigFiles == {NULL} \cup {Some(keys) : keys \in SUBSET ConfigKeys}

\* find_config_path raises ConfigError when no directory of the chain holds
\* the file.
find_config_path(file) == IF file = NULL THEN "ConfigError" ELSE "ok"

\* parse_config_path raises ConfigError on the KeyError of a missing key.
parse_config_path(file) ==
    IF ConfigKeys \subseteq file[1] THEN "ok" ELSE "ConfigError"

\* The rowid argument is text; SQLite compares it with the integer rowid
\* after numeric conversion, so text that is no integer matches no row.
RowidText == <<"1", "2", "3", "4">>
RowidArgs == {RowidText[i] : i \in 1..(MaxTickets + 1)} \cup {"abc"}
RowidMatches(arg, rowid) ==
    \E i \in 1..Len(RowidText) : RowidText[i] = arg /\ i = rowid

----------------------------------------------------------------------------
\* The ticket table.
Rowids(tbl) == {tbl[i].rowid : i \in 1..Len(tbl)}

SetMax(S) == CHOOSE m \in S : \A x \in S : x <= m

\* A rowid table without AUTOINCREMENT: the new rowid is one more than the
\* largest rowid in the table, 1 in an empty table.
\* Variant: the increment is forgotten.
NextRowid_reuses_max(tbl) == IF Len(tbl) = 0 THEN 1 ELSE SetMax(Rowids(tbl))

NextRowid(tbl) == IF Len(tbl) = 0 THEN 1 ELSE SetMax(Rowids(tbl)) + 1

\* Ticket.row_factory: a row as the Ticket snapshot the program holds.
row_factory(row) ==
    [row EXCEPT !.created_at = fromtimestamp(row.created_at),
                !.updated_at = IF row.updated_at # NULL /\ row.updated_at[1] # 0
                               THEN Some(fromtimestamp(row.updated_at[1]))
                               ELSE row.updated_at]

\* datetime.isoformat() of a datetime on a whole second (local time taken
\* as UTC), and f"{rowid}".
IsoText == <<"1970-01-01T00:00:01", "1970-01-01T00:00:02", "1970-01-01T00:00:03",
             "1970-01-01T00:00:04">>
isoformat(val) == IsoText[val.sec]

\* Ticket.asdict: the dict handed to rich.print_json under --format json.
\* A value is a str, Some(text), or None, NULL.
asdict(self) ==
    [rowid |-> Some(RowidText[self.rowid]),
     name |-> Some(self.name),
     description |-> Some(self.description),
     project |-> IF self.project # "" THEN Some(self.project) ELSE Some(""),
     status |-> Some(self.status),
     assigned_to |-> IF Truthy(self.assigned_to) THEN self.assigned_to ELSE Some(""),
     notes |-> Some(self.notes),
     created_by |-> Some(self.created_by),
     updated_by |-> self.updated_by,
     created_at |-> Some(isoformat(self.created_at)),
     updated_at |-> IF self.updated_at # NULL /\ self.updated_at[1] # 0
                    THEN Some(isoformat(self.updated_at[1]))
                    ELSE Some("")]

\* The JSON document of a listing: one object per ticket.
print_json(tickets) == [k \in 1..Len(tickets) |-> asdict(tickets[k])]

----------------------------------------------------------------------------
\* The FTS5 index ticket_fts (tokenize = 'porter ascii', content=ticket).

\* The columns mirrored into the index.
FtsColumns == {"name", "description", "project", "status", "assigned_to",
               "created_by"}

\* The porter stemmer over ASCII-folded (lower-cased) words, on the words
\* the inputs are made of.
Stem(word) ==
    CASE word = "TODO" -> "todo"
      [] word = "DOING" -> "do"
      [] word = "DONE" -> "done"
      [] word = "alice" -> "alic"
      [] word = "deploy" -> "deploi"
      [] OTHER -> word

\* The words the ascii tokenizer splits a text value into.
Words(text) ==
    CASE text = "" -> <<>>
      [] text = "bob smith" -> <<"bob", "smith">>
      [] OTHER -> <<text>>

\* The terms of one text value.
Tokenize(text) ==
    LET words == Words(text) IN {Stem(words[k]) : k \in 1..Len(words)}

\* The text of column col of a row; NULL indexes as no text.
ColumnText(row, col) ==
    IF col = "assigned_to"
    THEN IF row.assigned_to = NULL THEN "" ELSE row.assigned_to[1]
    ELSE row[col]

\* The terms of column col of a row.
ColumnTerms(row, col) == Tokenize(ColumnText(row, col))

RowTerms(row) == UNION {ColumnTerms(row, col) : col \in FtsColumns}

Postings(row) ==
    UNION {{[rowid |-> row.rowid, term |-> tm, col |-> col] :
               tm \in ColumnTerms(row, col)} : col \in FtsColumns}

\* The number of tokens of each column of a row.
ColumnSizes(row) == [col \in FtsColumns |-> Len(Words(ColumnText(row, col)))]

\* The index: its postings and, per column, the total number of tokens it
\* counts over all rows.
EmptyIndex == [postings |-> {}, size |-> [col \in FtsColumns |-> 0]]

\* INSERT INTO ticket_fts (rowid, ...) VALUES (NEW.rowid, ...).
FtsInsert(fts, new) ==
    LET sizes == ColumnSizes(new)
    IN [postings |-> fts.postings \cup Postings(new),
        size |-> [col \in FtsColumns |-> fts.size[col] + sizes[col]]]

\* The rows of the content table with rowid r.
Content(content, r) ==
    {content[i] : i \in {j \in 1..Len(content) : content[j].rowid = r}}

\* DELETE FROM ticket_fts WHERE rowid = r finds the index inconsistent
\* (sqlite3.DatabaseError, "database disk image is malformed") when the row
\* it reads from the content table has more tokens in a column than the
\* index counts in that column over all rows.
FtsDeleteRaises(fts, content, r) ==
    \E row \in Content(content, r) :
       LET sizes == ColumnSizes(row)
       IN \E col \in FtsColumns : sizes[col] > fts.size[col]

\* DELETE FROM ticket_fts WHERE rowid = r.  The index is an external-content
\* table: the terms to remove are read from the content table `ticket` as it
\* is when the statement runs, each such term is removed for the rowid in
\* every column, and the token counts of that row are taken off the totals.
FtsDelete(fts, content, r) ==
    LET stored == Content(content, r)
        terms == UNION {RowTerms(row) : row \in stored}
        sizes == IF stored = {}
                 THEN [col \in FtsColumns |-> 0]
                 ELSE ColumnSizes(CHOOSE row \in stored : TRUE)
    IN [postings |-> {e \in fts.postings : ~(e.rowid = r /\ e.term \in terms)},
        size |-> [col \in FtsColumns |-> fts.size[col] - sizes[col]]]

\* Trigger insert_ticket AFTER INSERT ON ticket.
insert_ticket(fts, new) == FtsInsert(fts, new)

\* Trigger update_ticket AFTER UPDATE ON ticket: the table already holds NEW.
update_ticket(fts, content, new) == FtsInsert(FtsDelete(fts, content, new.rowid), new)

\* ticket_fts MATCH :search for a one-word query: the rowids with a posting
\* of the query's term in any column.
FtsMatch(fts, search) ==
    {e.rowid : e \in {x \in fts.postings : x.term \in Tokenize(search)}}

----------------------------------------------------------------------------
\* setup_db: the schema.  A database file holds the objects created so far;
\* a table that is not there has no rows.
SchemaObjects == {"ticket", "ticket_fts", "insert_ticket", "update_ticket"}

\* CREATE ... IF NOT EXISTS object, on db = <<schema, table, index>>: nothing
\* when the object is there, else the object is created, a table empty.
CreateIfNotExists(db, object) ==
    IF object \in db[1]
    THEN db
    ELSE <<db[1] \cup {object},
           IF object = "ticket" THEN <<>> ELSE db[2],
           IF object = "ticket_fts" THEN EmptyIndex ELSE db[3]>>

\* Variant of setup_db: the objects are dropped and created again.
setup_db_recreates(sch, tbl, fts) == <<SchemaObjects, <<>>, EmptyIndex>>

\* setup_db: the four statements in their order, each in its transaction.
setup_db(sch, tbl, fts) ==
    CreateIfNotExists(
        CreateIfNotExists(
            CreateIfNotExists(
                CreateIfNotExists(<<sch, tbl, fts>>, "ticket"),
                "ticket_fts"),
            "insert_ticket"),
        "update_ticket")

----------------------------------------------------------------------------
\* Ticket: the store operations.  Each is one statement in one transaction
\* and yields <<table, index, fetched row or NULL>>; a statement that raises
\* is rolled back and yields the exception in place of the row.
Raised == <<"DatabaseError", "database disk image is malformed">>
IsRaised(fetched) == Len(fetched) = 2

\* Ticket.get: SELECT ... WHERE rowid = :rowid; fetchone() is None on no row.
Ticket_get(tbl, rowid) ==
    LET hits == {i \in 1..Len(tbl) : RowidMatches(rowid, tbl[i].rowid)}
    IN IF hits = {} THEN NULL ELSE Some(row_factory(tbl[CHOOSE i \in hits : TRUE]))

\* Variant of Ticket.new: a status outside the three is inserted.
Ticket_new_status_open(tbl, fts, name, description, project, assigned_to, created_by, current_datetime) ==
    LET new == [rowid |-> NextRowid(tbl), name |-> name, description |-> description,
                project |-> project, status |-> "OPEN", assigned_to |-> assigned_to,
                notes |-> "", created_by |-> created_by, updated_by |-> NULL,
                created_at |-> adapt_datetime_epoch(current_datetime),
                updated_at |-> NULL]
    IN <<Append(tbl, new), insert_ticket(fts, new), Some(row_factory(new))>>

\* Variant of Ticket.new: the INSERT also stamps updated_by and updated_at.
Ticket_new_stamps_update(tbl, fts, name, description, project, assigned_to, created_by, current_datetime) ==
    LET new == [rowid |-> NextRowid(tbl), name |-> name, description |-> description,
                project |-> project, status |-> TODO, assigned_to |-> assigned_to,
                notes |-> "", created_by |-> created_by, updated_by |-> Some(created_by),
                created_at |-> adapt_datetime_epoch(current_datetime),
                updated_at |-> Some(adapt_datetime_epoch(current_datetime))]
    IN <<Append(tbl, new), insert_ticket(fts, new), Some(row_factory(new))>>

\* Ticket.new: INSERT ... RETURNING, and the insert trigger.
Ticket_new(tbl, fts, name, description, project, assigned_to, created_by, current_datetime) ==
    LET new == [rowid |-> NextRowid(tbl),
                name |-> name,
                description |-> description,
                project |-> project,
                status |-> TODO,
                assigned_to |-> assigned_to,
                notes |-> "",
                created_by |-> created_by,
                updated_by |-> NULL,
                created_at |-> adapt_datetime_epoch(current_datetime),
                updated_at |-> NULL]
    IN <<Append(tbl, new), insert_ticket(fts, new), Some(row_factory(new))>>

\* A row with the columns of the SET clause assigned.
SetColumns(row, assignments) ==
    [col \in DOMAIN row |->
        IF col \in DOMAIN assignments THEN assignments[col] ELSE row[col]]

\* Variant of UpdateReturning: the row is read before the SET is applied.
UpdateReturning_returns_old(tbl, fts, r, assignments) ==
    LET hits == {i \in 1..Len(tbl) : tbl[i].rowid = r}
        after == [i \in 1..Len(tbl) |->
                     IF i \in hits THEN SetColumns(tbl[i], assignments) ELSE tbl[i]]
    IN IF hits = {}
       THEN <<tbl, fts, NULL>>
       ELSE IF FtsDeleteRaises(fts, after, r)
       THEN <<tbl, fts, Raised>>
       ELSE LET i == CHOOSE j \in hits : TRUE
            IN <<after, update_ticket(fts, after, after[i]), Some(row_factory(tbl[i]))>>

\* UPDATE ticket SET assignments WHERE rowid = r RETURNING, and the update
\* trigger for the updated row; when the trigger's DELETE raises, `with conn`
\* rolls the statement back.
UpdateReturning(tbl, fts, r, assignments) ==
    LET hits == {i \in 1..Len(tbl) : tbl[i].rowid = r}
        after == [i \in 1..Len(tbl) |->
                     IF i \in hits THEN SetColumns(tbl[i], assignments) ELSE tbl[i]]
    IN IF hits = {}
       THEN <<tbl, fts, NULL>>
       ELSE IF FtsDeleteRaises(fts, after, r)
       THEN <<tbl, fts, Raised>>
       ELSE LET i == CHOOSE j \in hits : TRUE
            IN <<after, update_ticket(fts, after, after[i]), Some(row_factory(after[i]))>>

\* Variant of Ticket.assign_to: the UPDATE has no WHERE clause.
Ticket_assign_to_every_row(self, tbl, fts, status, assigned_to, updated_by, current_datetime) ==
    LET assignments == [status |-> status, assigned_to |-> assigned_to,
                        updated_by |-> Some(updated_by),
                        updated_at |-> Some(adapt_datetime_epoch(current_datetime))]
        after == [i \in 1..Len(tbl) |-> SetColumns(tbl[i], assignments)]
        i == CHOOSE j \in 1..Len(tbl) : tbl[j].rowid = self.rowid
    IN <<after, update_ticket(fts, after, after[i]), Some(row_factory(after[i]))>>

\* Variant of Ticket.assign_to: the UPDATE also resets notes to its default.
Ticket_assign_to_clears_notes(self, tbl, fts, status, assigned_to, updated_by, current_datetime) ==
    UpdateReturning(tbl, fts, self.rowid,
                    [status |-> status, assigned_to |-> assigned_to, notes |-> "",
                     updated_by |-> Some(updated_by),
                     updated_at |-> Some(adapt_datetime_epoch(current_datetime))])

\* Variant of Ticket.assign_to: the fetched ticket is written back whole,
\* notes included, with the new values.
Ticket_assign_to_writes_self(self, tbl, fts, status, assigned_to, updated_by, current_datetime) ==
    UpdateReturning(tbl, fts, self.rowid,
                    [status |-> status, assigned_to |-> assigned_to,
                     notes |-> self.notes, updated_by |-> Some(updated_by),
                     updated_at |-> Some(adapt_datetime_epoch(current_datetime))])

\* Ticket.assign_to.
Ticket_assign_to(self, tbl, fts, status, assigned_to, updated_by, current_datetime) ==
    UpdateReturning(tbl, fts, self.rowid,
                    [status |-> status,
                     assigned_to |-> assigned_to,
                     updated_by |-> Some(updated_by),
                     updated_at |-> Some(adapt_datetime_epoch(current_datetime))])

\* Variant of Ticket.mark_as_done: assigned_to is not cleared.
Ticket_mark_as_done_keeps_assignee(self, tbl, fts, notes, updated_by, current_datetime) ==
    UpdateReturning(tbl, fts, self.rowid,
                    [status |-> DONE, notes |-> notes, updated_by |-> Some(updated_by),
                     updated_at |-> Some(adapt_datetime_epoch(current_datetime))])

\* Variant of Ticket.mark_as_done: the notes are bound to column description.
Ticket_mark_as_done_notes_to_description(self, tbl, fts, notes, updated_by, current_datetime) ==
    UpdateReturning(tbl, fts, self.rowid,
                    [status |-> DONE, description |-> notes, assigned_to |-> NULL,
                     updated_by |-> Some(updated_by),
                     updated_at |-> Some(adapt_datetime_epoch(current_datetime))])

\* Variant of Ticket.mark_as_done: the time is written to created_at.
Ticket_mark_as_done_stamps_created(self, tbl, fts, notes, updated_by, current_datetime) ==
    UpdateReturning(tbl, fts, self.rowid,
                    [status |-> DONE, notes |-> notes, assigned_to |-> NULL,
                     updated_by |-> Some(updated_by),
                     created_at |-> adapt_datetime_epoch(current_datetime)])

\* Ticket.mark_as_done.
Ticket_mark_as_done(self, tbl, fts, notes, updated_by, current_datetime) ==
    UpdateReturning(tbl, fts, self.rowid,
                    [status |-> DONE,
                     notes |-> notes,
                     assigned_to |-> NULL,
                     updated_by |-> Some(updated_by),
                     updated_at |-> Some(adapt_datetime_epoch(current_datetime))])

\* Variant of _list_tickets: the created_by clause names column assigned_to.
_list_tickets_misbound(tbl, fts, status, search, assigned_to, created_by) ==
    LET Keep(row) ==
            /\ Truthy(search) => row.rowid \in FtsMatch(fts, search[1])
            /\ Truthy(status) => row.status = status[1]
            /\ Truthy(assigned_to) => row.assigned_to = assigned_to
            /\ Truthy(created_by) => row.assigned_to = created_by
        kept == SelectSeq(tbl, Keep)
    IN [i \in 1..Len(kept) |-> row_factory(kept[i])]

\* Variant of _list_tickets: the index is joined with LEFT JOIN.
_list_tickets_left_join(tbl, fts, status, search, assigned_to, created_by) ==
    LET Keep(row) ==
            /\ Truthy(status) => row.status = status[1]
            /\ Truthy(assigned_to) => row.assigned_to = assigned_to
            /\ Truthy(created_by) => row.created_by = created_by[1]
        kept == SelectSeq(tbl, Keep)
    IN [i \in 1..Len(kept) |-> row_factory(kept[i])]

\* _list_tickets: the SELECT built from the filters that are truthy, in
\* table order, each row through row_factory.
_list_tickets(tbl, fts, status, search, assigned_to, created_by) ==
    LET Keep(row) ==
            /\ Truthy(search) => row.rowid \in FtsMatch(fts, search[1])
            /\ Truthy(status) => row.status = status[1]
            /\ Truthy(assigned_to) => row.assigned_to = assigned_to
            /\ Truthy(created_by) => row.created_by = created_by[1]
        kept == SelectSeq(tbl, Keep)
    IN [i \in 1..Len(kept) |-> row_factory(kept[i])]

----------------------------------------------------------------------------
\* The command handlers.  main() runs one handler per invocation with the
\* caller's login name and the current time.  A handler is a function of the
\* store (conn) and its arguments to <<table, index, result>>, the result
\* being the outcome, the snapshot the store operation returned and the
\* listing printed.

\* The listing every writing handler prints last: no filter at all.
ListAll(tbl, fts) == _list_tickets(tbl, fts, Some(""), Some(""), Some(""), Some(""))

\* The handler ran to its end on what the store operation wrote; main()
\* returns and the process exits with status 0.  When the store operation
\* raised, nothing is printed and the uncaught exception ends the process
\* with status 1.
Finish(written) ==
    IF IsRaised(written[3])
    THEN <<written[1], written[2],
           [outcome |-> written[3][1], ret |-> NULL, out |-> <<>>, exit |-> 1]>>
    ELSE <<written[1], written[2],
           [outcome |-> "ok", ret |-> written[3],
            out |-> ListAll(written[1], written[2]), exit |-> 0]>>

\* Ticket.get returned None and the handler called a method on it:
\* AttributeError, nothing written, nothing printed.  Nothing in main()
\* catches it, so the interpreter ends the process with status 1.
Fault(tbl, fts) ==
    <<tbl, fts,
      [outcome |-> "AttributeError", ret |-> NULL, out |-> <<>>, exit |-> 1]>>

\* Variant of create_ticket_handler: the assignee does not default.
create_ticket_handler_unassigned(tbl, fts, user, now, args) ==
    LET project == IF args.project # "" THEN args.project ELSE ConfigProject
    IN Finish(Ticket_new(tbl, fts, args.name, args.description, project,
                         args.assign_to, user, now))

create_ticket_handler(tbl, fts, user, now, args) ==
    LET project == IF args.project # "" THEN args.project ELSE ConfigProject
        assigned_to == IF Truthy(args.assign_to) THEN args.assign_to ELSE Some(user)
    IN Finish(Ticket_new(tbl, fts, args.name, args.description, project,
                         assigned_to, user, now))

assign_todo_handler(tbl, fts, user, now, rowid, assign_to) ==
    LET assigned_to == IF Truthy(assign_to) THEN assign_to ELSE NULL
        fetched == Ticket_get(tbl, rowid)
    IN IF fetched = NULL
       THEN Fault(tbl, fts)
       ELSE Finish(Ticket_assign_to(fetched[1], tbl, fts, TODO, assigned_to,
                                    user, now))

assign_doing_handler(tbl, fts, user, now, rowid, assign_to) ==
    LET assigned_to == IF Truthy(assign_to) THEN assign_to ELSE Some(user)
        fetched == Ticket_get(tbl, rowid)
    IN IF fetched = NULL
       THEN Fault(tbl, fts)
       ELSE Finish(Ticket_assign_to(fetched[1], tbl, fts, DOING, assigned_to,
                                    user, now))

mark_as_done_handler(tbl, fts, user, now, rowid, notes) ==
    LET fetched == Ticket_get(tbl, rowid)
    IN IF fetched = NULL
       THEN Fault(tbl, fts)
       ELSE Finish(Ticket_mark_as_done(fetched[1], tbl, fts, notes, user, now))

\* list_ticket_handler reads neither the caller nor the time.
list_ticket_handler(tbl, fts, status, search, assigned_to, created_by) ==
    <<tbl, fts,
      [outcome |-> "ok", ret |-> NULL,
       out |-> _list_tickets(tbl, fts, status, search, assigned_to, created_by),
       exit |-> 0]>>

\* sync_handler prints a line and touches nothing.
sync_handler(tbl, fts) ==
    <<tbl, fts, [outcome |-> "ok", ret |-> NULL, out |-> <<>>, exit |-> 0]>>

\* Filters of ls.
StatusArgs == {NULL, Some(TODO), Some(DOING), Some(DONE)}   \* --status choices
SearchArgs == {NULL, Some(""), Some(TODO), Some("bob")}     \* --search
FilterArgs == {NULL, Some(""), Some("alice"), Some("bob")}  \* --assigned_to, --created_by

\* The ls invocations a run makes: every option alone, and options together.
LsArgs ==
    {f \in [status : StatusArgs, search : SearchArgs,
            assigned_to : FilterArgs, created_by : FilterArgs] :
        \/ Cardinality({k \in DOMAIN f : f[k] # NULL}) <= 1
        \/ /\ f.status \in {NULL, Some(DOING)}
           /\ f.search \in {NULL, Some(TODO)}
           /\ f.assigned_to \in {NULL, Some("bob")}
           /\ f.created_by \in {NULL, Some("alice")}}

----------------------------------------------------------------------------
\* One invocation of the program.  main() finds and parses the config, and
\* exits with status 1 when that fails; else it connects, runs setup_db and
\* calls the handler, whose effect becomes the state.

\* The database as setup_db leaves it for the handler.
Opened == setup_db(schema, ticket, ticket_fts)

\* Times never run backwards.
Run(name, now, effect) ==
    /\ clock <= now.sec
    /\ handler' = name
    /\ schema' = Opened[1]
    /\ \E e \in {effect} :
          /\ clock' = IF e[3].ret # NULL THEN now.sec ELSE clock
          /\ writes' = IF e[3].ret # NULL THEN writes + 1 ELSE writes
          /\ ticket' = e[1]
          /\ ticket_fts' = e[2]
          /\ result' = e[3]
    /\ UNCHANGED <<procs, origin>>

\* A run commits at most MaxWrites statements: a command is run when it
\* will not write (it names no ticket) or another write is allowed.
MayWrite == writes < MaxWrites
Misses(rowid) == Ticket_get(ticket, rowid) = NULL

\* The callers and times a run draws for a command on rowid.  The clock of
\* an invocation reads a sub-second part.  A command naming no ticket does
\* the same whoever runs it and whenever, so it is run by one caller at one
\* time.
Instants == {now \in Times : now.frac = 1}
CallersOn(rowid) == IF Misses(rowid) THEN {CHOOSE user \in Users : TRUE} ELSE Users
InstantsOn(rowid) ==
    IF Misses(rowid)
    THEN {CHOOSE now \in Instants : now.sec = clock}
    ELSE Instants

\* An invocation that has not started: no command, nothing fetched,
\* nothing returned, nothing printed.
Procs == Users
Idle ==
    [pc |-> "idle", cmd |-> NULL, self |-> NULL, ret |-> NULL, out |-> <<>>,
     outcome |-> "ok"]

\* A new database file, before the first invocation.
Init ==
    /\ schema = {}
    /\ ticket = <<>>
    /\ ticket_fts = EmptyIndex
    /\ clock = 1
    /\ writes = 0
    /\ handler = "none"
    /\ result = [outcome |-> "ok", ret |-> NULL, out |-> <<>>, exit |-> 0]
    /\ procs = [p \in Procs |-> Idle]
    /\ origin = <<<<>>, EmptyIndex>>

\* main() with no usable config: a message is printed and exit(1) called
\* before the database is opened and the arguments are parsed.
ConfigFails ==
    \E file \in ConfigFiles :
       /\ IF find_config_path(file) = "ok"
          THEN parse_config_path(file) = "ConfigError"
          ELSE TRUE
       /\ handler' = "none"
       /\ result' = [outcome |-> IF find_config_path(file) = "ConfigError"
                                 THEN "MissingConfig" ELSE "InvalidConfig",
                     ret |-> NULL, out |-> <<>>, exit |-> 1]
       /\ UNCHANGED <<schema, ticket, ticket_fts, clock, writes, procs, origin>>

New ==
    /\ Len(ticket) < MaxTickets
    /\ MayWrite
    /\ \E user \in Users, now \in Instants, args \in NewArgs :
          Run("new", now,
              create_ticket_handler(Opened[2], Opened[3], user, now, args))

Todo ==
    \E rowid \in RowidArgs :
       /\ MayWrite \/ Misses(rowid)
       /\ \E user \in CallersOn(rowid), now \in InstantsOn(rowid), assign_to \in AssignArgs :
             Run("todo", now,
                 assign_todo_handler(Opened[2], Opened[3], user, now, rowid,
                                     assign_to))

Doing ==
    \E rowid \in RowidArgs :
       /\ MayWrite \/ Misses(rowid)
       /\ \E user \in CallersOn(rowid), now \in InstantsOn(rowid), assign_to \in AssignArgs :
             Run("doing", now,
                 assign_doing_handler(Opened[2], Opened[3], user, now, rowid,
                                      assign_to))

Done ==
    \E rowid \in RowidArgs :
       /\ MayWrite \/ Misses(rowid)
       /\ \E user \in CallersOn(rowid), now \in InstantsOn(rowid), notes \in NotesArgs :
             Run("done", now,
                 mark_as_done_handler(Opened[2], Opened[3], user, now, rowid,
                                      notes))

\* ls and sync neither write nor read the time.
Ls ==
    \E f \in LsArgs :
        /\ handler' = "ls"
        /\ schema' = Opened[1]
        /\ ticket' = Opened[2]
        /\ ticket_fts' = Opened[3]
        /\ result' = list_ticket_handler(Opened[2], Opened[3], f.status, f.search,
                                         f.assigned_to, f.created_by)[3]
        /\ UNCHANGED <<clock, writes, procs, origin>>

Sync ==
    /\ handler' = "sync"
    /\ schema' = Opened[1]
    /\ ticket' = Opened[2]
    /\ ticket_fts' = Opened[3]
    /\ result' = sync_handler(Opened[2], Opened[3])[3]
    /\ UNCHANGED <<clock, writes, procs, origin>>

Next == ConfigFails \/ New \/ Todo \/ Doing \/ Done \/ Ls \/ Sync

Spec == Init /\ [][Next]_vars

----------------------------------------------------------------------------
\* Two invocations at once.  Each user launches one writing command against
\* the same database file; every `with conn:` block of a handler is one
\* transaction, which SQLite runs alone, and the blocks of the two
\* processes interleave in any order.

\* The commands launched: new with its options at their defaults or given,
\* and todo, doing and done on ticket 1.
WriteCmds ==
    {[kind |-> "new", args |-> a, now |-> t] :
        a \in {x \in NewArgs : x.assign_to # Some("")}, t \in Instants}
    \cup {[kind |-> k, rowid |-> "1", assign_to |-> a, now |-> t] :
             k \in {"todo", "doing"}, a \in {NULL, Some("bob smith")}, t \in Instants}
    \cup {[kind |-> "done", rowid |-> "1", notes |-> n, now |-> t] :
             n \in NotesArgs, t \in Instants}

\* The stores the two start on: a database with no ticket yet, or with the
\* one ticket a new command made.
Seeds ==
    {<<<<>>, EmptyIndex>>}
    \cup {<<e[1], e[2]>> :
             e \in {create_ticket_handler(<<>>, EmptyIndex, user, now, args) :
                       user \in Users, now \in {t \in Instants : t.sec = 1},
                       args \in NewArgs}}

ConcInit ==
    \E seed \in Seeds :
       /\ schema = SchemaObjects
       /\ ticket = seed[1]
       /\ ticket_fts = seed[2]
       /\ clock = 1
       /\ writes = 0
       /\ handler = "none"
       /\ result = [outcome |-> "ok", ret |-> NULL, out |-> <<>>, exit |-> 0]
       /\ procs = [p \in Procs |-> Idle]
       /\ origin = seed

\* The store as a step of process p leaves it, and p's own state.
Step(p, tbl, fts, state) ==
    /\ ticket' = tbl
    /\ ticket_fts' = fts
    /\ procs' = [procs EXCEPT ![p] = state]
    /\ UNCHANGED <<schema, clock, writes, handler, result, origin>>

\* main() up to the first transaction of a todo, doing or done handler:
\* setup_db (nothing to create), the arguments and the time are read, and
\* Ticket.get fetches the ticket.
Fetch(p) ==
    /\ procs[p].pc = "idle"
    /\ \E cmd \in {c \in WriteCmds : c.kind # "new"} :
          Step(p, Opened[2], Opened[3],
               [procs[p] EXCEPT !.pc = "fetched", !.cmd = Some(cmd),
                                !.self = Ticket_get(Opened[2], cmd.rowid)])

\* main() up to the first transaction of the new handler: Ticket.new.
Create(p) ==
    /\ procs[p].pc = "idle"
    /\ \E cmd \in {c \in WriteCmds : c.kind = "new"} :
          LET project == IF cmd.args.project # "" THEN cmd.args.project
                         ELSE ConfigProject
              assigned_to == IF Truthy(cmd.args.assign_to) THEN cmd.args.assign_to
                             ELSE Some(p)
              written == Ticket_new(Opened[2], Opened[3], cmd.args.name,
                                    cmd.args.description, project, assigned_to,
                                    p, cmd.now)
          IN Step(p, written[1], written[2],
                  [procs[p] EXCEPT !.pc = "written", !.cmd = Some(cmd),
                                   !.ret = written[3]])

\* The second transaction of a todo, doing or done handler: the UPDATE of
\* Ticket.assign_to or Ticket.mark_as_done on the ticket fetched.  A handler
\* that fetched None, or whose UPDATE raises, ends here.
Write(p) ==
    /\ procs[p].pc = "fetched"
    /\ LET cmd == procs[p].cmd[1]
           self == procs[p].self
           assigned_to ==
               IF cmd.kind = "done" THEN NULL
               ELSE IF Truthy(cmd.assign_to) THEN cmd.assign_to
               ELSE IF cmd.kind = "doing" THEN Some(p) ELSE NULL
           written ==
               IF cmd.kind = "done"
               THEN Ticket_mark_as_done(self[1], ticket, ticket_fts, cmd.notes, p,
                                        cmd.now)
               ELSE Ticket_assign_to(self[1], ticket, ticket_fts,
                                     IF cmd.kind = "todo" THEN TODO ELSE DOING,
                                     assigned_to, p, cmd.now)
       IN IF self = NULL
          THEN Step(p, ticket, ticket_fts,
                    [procs[p] EXCEPT !.pc = "exited", !.outcome = "AttributeError"])
          ELSE IF IsRaised(written[3])
          THEN Step(p, written[1], written[2],
                    [procs[p] EXCEPT !.pc = "exited", !.outcome = written[3][1]])
          ELSE Step(p, written[1], written[2],
                    [procs[p] EXCEPT !.pc = "written", !.ret = written[3]])

\* The last transaction of a writing handler: _list_tickets with no filter.
List(p) ==
    /\ procs[p].pc = "written"
    /\ Step(p, ticket, ticket_fts,
            [procs[p] EXCEPT !.pc = "exited", !.out = ListAll(ticket, ticket_fts)])

NextConc == \E p \in Procs : Fetch(p) \/ Create(p) \/ Write(p) \/ List(p)

SpecConc == ConcInit /\ [][NextConc]_vars

----------------------------------------------------------------------------
\* Properties.  A property of a command is stated of the handler's effect
\* on every store the program reaches, for every argument.

\* The position in the table of the row the rowid argument names, if any.
Target(tbl, rowid) == {i \in 1..Len(tbl) : RowidMatches(rowid, tbl[i].rowid)}

\* C1: Completion invariant.  Whatever the status and assignee of an
\* existing ticket, a done command with notes N leaves its stored row and
\* the snapshot the store returns with status DONE, no assignee and notes N.
C1_CompletionInvariant ==
    \A user \in Users, now \in Times, rowid \in RowidArgs, notes \in NotesArgs :
       \A i \in Target(ticket, rowid) :
          LET done == mark_as_done_handler(ticket, ticket_fts, user, now, rowid, notes)
          IN /\ done[1][i].rowid = ticket[i].rowid
             /\ done[1][i].status = DONE
             /\ done[1][i].assigned_to = NULL
             /\ done[1][i].notes = notes
             /\ done[3].ret # NULL
             /\ done[3].ret[1].rowid = ticket[i].rowid
             /\ done[3].ret[1].status = DONE
             /\ done[3].ret[1].assigned_to = NULL
             /\ done[3].ret[1].notes = notes

\* A done command with notes completed a ticket that was DOING and assigned
\* (the index still lists it under the stem of DOING).
C1_Witness ==
    /\ handler = "done"
    /\ result.outcome = "ok"
    /\ result.ret # NULL
    /\ result.ret[1].status = DONE
    /\ result.ret[1].notes = "fixed"
    /\ \E i \in 1..Len(ticket) :
          /\ ticket[i].rowid = result.ret[1].rowid
          /\ ticket[i].status = DONE
          /\ ticket[i].assigned_to = NULL

\* C2: State machine closure.  After a todo the status is TODO and after a
\* doing it is DOING, and the assignee is the --assign_to argument when one
\* was given (a non-empty one), null after a todo without one and the caller
\* after a doing without one.
C2_Closure ==
    \A user \in Users, now \in Times, rowid \in RowidArgs, a \in AssignArgs :
       \A i \in Target(ticket, rowid) :
          LET given == a # NULL /\ a # Some("")
              todo == assign_todo_handler(ticket, ticket_fts, user, now, rowid, a)
              doing == assign_doing_handler(ticket, ticket_fts, user, now, rowid, a)
          IN /\ todo[1][i].status = TODO
             /\ todo[1][i].assigned_to = (IF given THEN a ELSE NULL)
             /\ doing[1][i].status = DOING
             /\ doing[1][i].assigned_to = (IF given THEN a ELSE Some(user))

\* C3 as claimed: DONE is terminal.  Once a ticket is DONE no command
\* changes its status.
C3_DoneTerminalAsClaimed ==
    [][\A i \in 1..Len(ticket) :
          ticket[i].status = DONE => ticket'[i].status = DONE]_vars

\* C3 amended: a DONE ticket stays DONE under done, new and ls and under
\* todo and doing commands naming another or no ticket; a todo or doing
\* command naming it either raises and leaves it DONE or reopens it, to
\* TODO or to DOING.
C3_DoneLeftOnlyByReassign ==
    \A i \in {j \in 1..Len(ticket) : ticket[j].status = DONE} :
       /\ \A user \in Users, now \in Times :
             /\ \A args \in NewArgs :
                   create_ticket_handler(ticket, ticket_fts, user, now,
                                         args)[1][i].status = DONE
             /\ \A rowid \in RowidArgs, notes \in NotesArgs :
                   mark_as_done_handler(ticket, ticket_fts, user, now, rowid,
                                        notes)[1][i].status = DONE
             /\ \A rowid \in RowidArgs, a \in AssignArgs :
                   LET todo == assign_todo_handler(ticket, ticket_fts, user, now,
                                                   rowid, a)
                       doing == assign_doing_handler(ticket, ticket_fts, user, now,
                                                     rowid, a)
                       After(e, status) ==
                           e[1][i].status = IF e[3].outcome = "ok" THEN status ELSE DONE
                   IN IF i \in Target(ticket, rowid)
                      THEN After(todo, TODO) /\ After(doing, DOING)
                      ELSE todo[1][i].status = DONE /\ doing[1][i].status = DONE
       /\ \A f \in LsArgs :
             list_ticket_handler(ticket, ticket_fts, f.status, f.search,
                                 f.assigned_to, f.created_by)[1][i].status = DONE

\* A ticket that a done command completed (its notes are set) is TODO or
\* DOING again after a todo or doing command.
C3_Witness ==
    /\ handler \in {"todo", "doing"}
    /\ result.outcome = "ok"
    /\ result.ret # NULL
    /\ result.ret[1].notes = "fixed"
    /\ result.ret[1].status \in {TODO, DOING}

\* C4: Status invariant.  Every ticket's status is TODO, DOING or DONE, and
\* a ticket just created by new has status TODO.
C4_StatusInvariant ==
    /\ \A i \in 1..Len(ticket) : ticket[i].status \in {TODO, DOING, DONE}
    /\ (handler = "new" /\ result.outcome = "ok")
       => /\ Len(ticket) > 0
          /\ ticket[Len(ticket)].status = TODO
          /\ result.ret # NULL
          /\ result.ret[1].rowid = ticket[Len(ticket)].rowid
          /\ result.ret[1].status = TODO

\* A second ticket was just created while the first one is DONE.
C4_Witness ==
    /\ handler = "new"
    /\ Len(ticket) = 2
    /\ ticket[1].status = DONE
    /\ ticket[2].status = TODO

\* C5: Round trip.  The ticket fetched by the identifier create returned,
\* before any mutation, equals the returned snapshot field for field, with
\* the supplied name, description, project, assignee and creator, status
\* TODO and no updated_by / updated_at.
C5_RoundTrip ==
    \A name \in {a.name : a \in NewArgs}, description \in {a.description : a \in NewArgs},
       project \in {"web", ConfigProject}, assigned_to \in {NULL, Some("bob")},
       created_by \in Users, now \in Times :
       LET created == Ticket_new(ticket, ticket_fts, name, description, project,
                                 assigned_to, created_by, now)
           snap == created[3][1]
       IN /\ created[3] # NULL
          /\ Ticket_get(created[1], RowidText[snap.rowid]) = Some(snap)
          /\ snap.name = name
          /\ snap.description = description
          /\ snap.project = project
          /\ snap.assigned_to = assigned_to
          /\ snap.created_by = created_by
          /\ snap.status = TODO
          /\ snap.updated_by = NULL
          /\ snap.updated_at = NULL

\* A second ticket, with every option given, was created and fetches back
\* as returned.
C5_Witness ==
    /\ handler = "new"
    /\ result.ret # NULL
    /\ result.ret[1].rowid = 2
    /\ result.ret[1].project = "web"
    /\ Ticket_get(ticket, "2") = result.ret

\* The rows all of whose named columns equal the given filter values.
Matching(tbl, status, assigned_to, created_by) ==
    {i \in 1..Len(tbl) :
        /\ status # NULL => tbl[i].status = status[1]
        /\ assigned_to # NULL => tbl[i].assigned_to = assigned_to
        /\ created_by # NULL => tbl[i].created_by = created_by[1]}

\* The listing holds exactly the rows at the positions `rows`, each once.
ListsExactly(out, tbl, rows) ==
    /\ Len(out) = Cardinality(rows)
    /\ {out[k] : k \in 1..Len(out)} = {row_factory(tbl[i]) : i \in rows}

\* C6 as claimed: Filter correctness.  For any subset of the filters status,
\* assigned_to and created_by, each given with a value, ls lists exactly the
\* tickets whose columns equal all the given values, each once, and every
\* ticket when no filter is given.
C6_FilterAsClaimed ==
    \A status \in StatusArgs, assigned_to \in FilterArgs, created_by \in FilterArgs :
       ListsExactly(list_ticket_handler(ticket, ticket_fts, status, NULL,
                                        assigned_to, created_by)[3].out,
                    ticket, Matching(ticket, status, assigned_to, created_by))

\* A filter is in force when it is given and not the empty string.
InForce(x) == IF x # NULL /\ x # Some("") THEN x ELSE NULL

\* C6 amended: the same for filters given with a non-empty value; a filter
\* given as the empty string is not applied.
C6_FilterCorrectness ==
    \A status \in StatusArgs, assigned_to \in FilterArgs, created_by \in FilterArgs :
       ListsExactly(list_ticket_handler(ticket, ticket_fts, status, NULL,
                                        assigned_to, created_by)[3].out,
                    ticket, Matching(ticket, InForce(status), InForce(assigned_to),
                                     InForce(created_by)))

\* An ls listed one of two tickets that differ in status, assignee and creator.
C6_Witness ==
    /\ handler = "ls"
    /\ Len(ticket) = 2
    /\ Len(result.out) = 1
    /\ ticket[1].status # ticket[2].status
    /\ ticket[1].assigned_to # ticket[2].assigned_to
    /\ ticket[1].created_by # ticket[2].created_by

\* The words a search may ask for.
SearchWords == {TODO, DOING, DONE, "alice", "bob", "login", "deploy", "ci", "web",
                ConfigProject}

\* C7: Index consistency.  The index holds, for every ticket, exactly the
\* entry of its current mirrored fields, so a search finds exactly the
\* tickets whose current values hold the word.
C7_IndexConsistency ==
    /\ ticket_fts.postings = UNION {Postings(ticket[i]) : i \in 1..Len(ticket)}
    /\ \A word \in SearchWords :
          FtsMatch(ticket_fts, word)
             = {ticket[i].rowid : i \in {j \in 1..Len(ticket) :
                                            Tokenize(word) \subseteq RowTerms(ticket[j])}}

\* C8: Not-found handling.  A todo, doing or done command naming no ticket
\* ends in a NotFound failure and leaves table and index unchanged.
C8_NotFound ==
    \A user \in Users, now \in Times,
       rowid \in {r \in RowidArgs : Target(ticket, r) = {}} :
       LET NotFound(e) == /\ e[1] = ticket
                          /\ e[2] = ticket_fts
                          /\ e[3].outcome = "NotFound"
                          /\ e[3].ret = NULL
       IN /\ \A a \in AssignArgs :
                /\ NotFound(assign_todo_handler(ticket, ticket_fts, user, now, rowid, a))
                /\ NotFound(assign_doing_handler(ticket, ticket_fts, user, now, rowid, a))
          /\ \A notes \in NotesArgs :
                NotFound(mark_as_done_handler(ticket, ticket_fts, user, now, rowid, notes))

\* C9: Timestamp order.  After every step each ticket with an updated_at
\* has created_at <= updated_at, and no step changes a created_at.
C9_TimestampOrder ==
    [][/\ \A i \in 1..Len(ticket') :
             ticket'[i].updated_at # NULL
             => ticket'[i].created_at <= ticket'[i].updated_at[1]
       /\ \A i \in 1..Len(ticket) :
             /\ i <= Len(ticket')
             /\ ticket'[i].created_at = ticket[i].created_at]_vars

\* A ticket was updated in a later second than it was created in.
C9_Witness ==
    \E i \in 1..Len(ticket) :
       /\ ticket[i].updated_at # NULL
       /\ ticket[i].created_at < ticket[i].updated_at[1]

\* C10: Identifier stability and uniqueness.  Every step keeps each
\* ticket and its identifier, and a created ticket gets an identifier no
\* ticket had before; identifiers are pairwise different.
C10_Identifiers ==
    [][/\ \A i \in 1..Len(ticket) :
             /\ i <= Len(ticket')
             /\ ticket'[i].rowid = ticket[i].rowid
       /\ \A i \in (Len(ticket) + 1)..Len(ticket') :
             ticket'[i].rowid \notin Rowids(ticket)
       /\ Cardinality(Rowids(ticket')) = Len(ticket')]_vars

\* Two tickets with different identifiers, the first one updated since.
C10_Witness ==
    /\ Len(ticket) = 2
    /\ ticket[1].rowid # ticket[2].rowid
    /\ ticket[1].updated_at # NULL
    /\ handler = "new"

\* C11: Atomic write-and-return.  Under every interleaving of the two
\* processes, the step in which a process's INSERT or UPDATE commits hands
\* it a snapshot that is the row as the table holds it after that step, and
\* changes no other row.
C11_AtomicWriteReturn ==
    [][\A p \in Procs :
          (procs[p].pc # "written" /\ procs'[p].pc = "written")
          => /\ procs'[p].ret # NULL
             /\ \E i \in 1..Len(ticket') :
                   /\ ticket'[i].rowid = procs'[p].ret[1].rowid
                   /\ row_factory(ticket'[i]) = procs'[p].ret[1]
             /\ \A j \in 1..Len(ticket) :
                   ticket[j].rowid # procs'[p].ret[1].rowid => ticket'[j] = ticket[j]]_vars

\* Both processes updated ticket 1, one after the other: the snapshot of
\* the first is no longer the stored row, the snapshot of the second is.
C11_Witness ==
    \E p \in Procs, q \in Procs :
       /\ procs[p].pc = "written"
       /\ procs[q].pc = "written"
       /\ procs[p].cmd[1].kind # "new"
       /\ procs[q].cmd[1].kind # "new"
       /\ procs[p].ret # NULL
       /\ procs[q].ret # NULL
       /\ procs[p].ret # procs[q].ret
       /\ Some(row_factory(ticket[1])) = procs[q].ret

\* main()'s dispatch: the handler of a command, run by user on a store.
RunCmd(tbl, fts, user, cmd) ==
    CASE cmd.kind = "new" ->
            create_ticket_handler(tbl, fts, user, cmd.now, cmd.args)
      [] cmd.kind = "todo" ->
            assign_todo_handler(tbl, fts, user, cmd.now, cmd.rowid, cmd.assign_to)
      [] cmd.kind = "doing" ->
            assign_doing_handler(tbl, fts, user, cmd.now, cmd.rowid, cmd.assign_to)
      [] cmd.kind = "done" ->
            mark_as_done_handler(tbl, fts, user, cmd.now, cmd.rowid, cmd.notes)

\* C20: Serialisable concurrent writers.  When both processes have run a
\* todo, doing or done command on the same ticket to its end, however their
\* fetches and updates interleaved, the table and the index are what running
\* the two commands one after the other, in one of the two orders, on the
\* store they started on leaves.
C20_Serialisable ==
    (\A p \in Procs : procs[p].pc = "exited" /\ procs[p].cmd[1].kind # "new")
    => \E p \in Procs :
          LET q == CHOOSE x \in Procs : x # p
              first == RunCmd(origin[1], origin[2], p, procs[p].cmd[1])
              second == RunCmd(first[1], first[2], q, procs[q].cmd[1])
          IN /\ ticket = second[1]
             /\ ticket_fts = second[2]

\* Both processes fetched ticket 1 before either updated it, then both
\* updated it with different results and ran to their end.
C20_Witness ==
    \E p \in Procs, q \in Procs :
       /\ p # q
       /\ procs[p].pc = "exited"
       /\ procs[q].pc = "exited"
       /\ procs[p].self # NULL
       /\ procs[p].self = procs[q].self
       /\ procs[p].self = Some(row_factory(origin[1][1]))
       /\ procs[p].ret # NULL
       /\ procs[q].ret # NULL
       /\ procs[p].ret[1].status # procs[q].ret[1].status
       /\ procs[p].cmd[1].kind = "done"
       /\ procs[q].ret[1].notes = "fixed"

\* C12: Schema setup is idempotent and non-destructive.  Whenever the
\* database has the schema, setup_db leaves schema, rows and index as they
\* are; and from any part of the schema, running it twice leaves what
\* running it once leaves.
C12_SetupIdempotent ==
    /\ SchemaObjects \subseteq schema
       => setup_db(schema, ticket, ticket_fts) = <<schema, ticket, ticket_fts>>
    /\ \A sch \in SUBSET SchemaObjects :
          LET tbl == IF "ticket" \in sch THEN ticket ELSE <<>>
              fts == IF "ticket_fts" \in sch THEN ticket_fts ELSE EmptyIndex
              once == setup_db(sch, tbl, fts)
          IN setup_db(once[1], once[2], once[3]) = once

\* An ls ran setup_db on a database holding two tickets and an index with
\* stale entries, and listed both tickets.
C12_Witness ==
    /\ handler = "ls"
    /\ schema = SchemaObjects
    /\ Len(ticket) = 2
    /\ Len(result.out) = 2
    /\ ticket_fts.postings # UNION {Postings(ticket[i]) : i \in 1..Len(ticket)}

\* The field names of a serialised ticket.
JsonFields == {"rowid", "name", "description", "project", "status", "assigned_to",
               "notes", "created_by", "updated_by", "created_at", "updated_at"}

\* C13: JSON serialisation.  The object serialised for any ticket of the
\* store, as a listing under --format json prints it, has exactly the eleven
\* fields, every value a string, and the empty string for each of
\* assigned_to, updated_by and updated_at that the ticket lacks.
C13_JsonSerialisation ==
    LET doc == print_json(ListAll(ticket, ticket_fts))
    IN /\ Len(doc) = Len(ticket)
       /\ \A k \in 1..Len(doc) :
             /\ DOMAIN doc[k] = JsonFields
             /\ \A field \in JsonFields : doc[k][field] # NULL
             /\ ticket[k].assigned_to = NULL => doc[k].assigned_to = Some("")
             /\ ticket[k].updated_by = NULL => doc[k].updated_by = Some("")
             /\ ticket[k].updated_at = NULL => doc[k].updated_at = Some("")

\* C14: Exit status.  An invocation ends with exit status 1 exactly when
\* the config file is missing or lacks a required key, and with 0 otherwise,
\* whatever the command, its arguments and the store.
C14_ExitStatus ==
    /\ result.exit \in {0, 1}
    /\ result.exit = 1 <=> result.outcome \in {"MissingConfig", "InvalidConfig"}

\* C15: Immutable fields.  Every step of a todo, doing or done command
\* keeps the rowid, name, description, project, created_by and created_at of
\* the ticket it updated, and every field of every other ticket.
C15_ImmutableFields ==
    [][handler' \in {"todo", "doing", "done"}
       => /\ Len(ticket') = Len(ticket)
          /\ \A i \in 1..Len(ticket) :
                IF result'.ret # NULL /\ result'.ret[1].rowid = ticket[i].rowid
                THEN /\ ticket'[i].rowid = ticket[i].rowid
                     /\ ticket'[i].name = ticket[i].name
                     /\ ticket'[i].description = ticket[i].description
                     /\ ticket'[i].project = ticket[i].project
                     /\ ticket'[i].created_by = ticket[i].created_by
                     /\ ticket'[i].created_at = ticket[i].created_at
                ELSE ticket'[i] = ticket[i]]_vars

\* A done command with notes completed the second of two tickets, made with
\* a description; the first, made by someone else, is untouched.
C15_Witness ==
    /\ handler = "done"
    /\ Len(ticket) = 2
    /\ result.ret # NULL
    /\ result.ret[1].rowid = 2
    /\ result.ret[1].notes = "fixed"
    /\ ticket[2].description = "ci"
    /\ ticket[1].updated_by = NULL
    /\ ticket[1].created_by # ticket[2].created_by

\* C16: Notes are written only by completion.  A ticket new made has empty
\* notes; todo and doing change no ticket's notes; done sets the notes of the
\* ticket it names to its argument and changes no other ticket's notes; and
\* a ticket never updated has empty notes.
C16_NotesOnlyByDone ==
    /\ \A i \in 1..Len(ticket) : ticket[i].updated_at = NULL => ticket[i].notes = ""
    /\ \A user \in Users, now \in Instants :
          /\ \A args \in NewArgs :
                LET new == create_ticket_handler(ticket, ticket_fts, user, now, args)
                IN /\ new[1][Len(new[1])].notes = ""
                   /\ \A i \in 1..Len(ticket) : new[1][i].notes = ticket[i].notes
          /\ \A rowid \in RowidArgs :
                /\ \A a \in AssignArgs :
                      LET todo == assign_todo_handler(ticket, ticket_fts, user, now,
                                                      rowid, a)
                          doing == assign_doing_handler(ticket, ticket_fts, user, now,
                                                        rowid, a)
                      IN \A i \in 1..Len(ticket) :
                            /\ todo[1][i].notes = ticket[i].notes
                            /\ doing[1][i].notes = ticket[i].notes
                /\ \A notes \in NotesArgs :
                      LET done == mark_as_done_handler(ticket, ticket_fts, user, now,
                                                       rowid, notes)
                      IN \A i \in 1..Len(ticket) :
                            done[1][i].notes = IF i \in Target(ticket, rowid)
                                               THEN notes ELSE ticket[i].notes

\* A ticket completed with notes was reopened by todo or doing and keeps
\* the notes.
C16_Witness ==
    /\ handler \in {"todo", "doing"}
    /\ result.ret # NULL
    /\ \E i \in 1..Len(ticket) :
          /\ ticket[i].rowid = result.ret[1].rowid
          /\ ticket[i].status \in {TODO, DOING}
          /\ ticket[i].notes = "fixed"

\* C17: Audit stamping.  A ticket new made has no updated_by and no
\* updated_at, the two are null together, and after every todo, doing or
\* done on a ticket its updated_by is the caller and its updated_at the
\* time of that command (to the second, as stored).
C17_AuditStamping ==
    /\ \A i \in 1..Len(ticket) : ticket[i].updated_by = NULL <=> ticket[i].updated_at = NULL
    /\ \A user \in Users, now \in Times :
          /\ \A args \in NewArgs :
                \E new \in {create_ticket_handler(ticket, ticket_fts, user, now, args)} :
                   /\ new[1][Len(new[1])].updated_by = NULL
                   /\ new[1][Len(new[1])].updated_at = NULL
          /\ \A rowid \in RowidArgs :
                \A i \in Target(ticket, rowid) :
                   LET Stamped(e) ==
                           /\ e[1][i].updated_by = Some(user)
                           /\ e[1][i].updated_at = Some(adapt_datetime_epoch(now))
                   IN /\ \A a \in AssignArgs :
                            /\ Stamped(assign_todo_handler(ticket, ticket_fts, user,
                                                           now, rowid, a))
                            /\ Stamped(assign_doing_handler(ticket, ticket_fts, user,
                                                            now, rowid, a))
                      /\ \A notes \in NotesArgs :
                            Stamped(mark_as_done_handler(ticket, ticket_fts, user, now,
                                                         rowid, notes))

\* C18 as claimed: Creation defaults.  new adds one ticket, TODO, created by
\* the caller, assigned to the --assign_to argument when one is given and
\* to the caller when none is, in the --project given or else the
\* configured project; the tickets there before are unchanged.
C18_CreationAsClaimed ==
    \A user \in Users, now \in Instants, args \in NewArgs :
       \E new \in {create_ticket_handler(ticket, ticket_fts, user, now, args)} :
          /\ Len(new[1]) = Len(ticket) + 1
          /\ \A i \in 1..Len(ticket) : new[1][i] = ticket[i]
          /\ new[1][Len(new[1])].status = TODO
          /\ new[1][Len(new[1])].created_by = user
          /\ new[1][Len(new[1])].assigned_to
                = (IF args.assign_to # NULL THEN args.assign_to ELSE Some(user))
          /\ new[1][Len(new[1])].project
                = (IF args.project # "" THEN args.project ELSE ConfigProject)

\* C18 amended: the same, an empty --assign_to counting as none given.
C18_CreationDefaults ==
    \A user \in Users, now \in Instants, args \in NewArgs :
       \E new \in {create_ticket_handler(ticket, ticket_fts, user, now, args)} :
          /\ Len(new[1]) = Len(ticket) + 1
          /\ \A i \in 1..Len(ticket) : new[1][i] = ticket[i]
          /\ new[1][Len(new[1])].status = TODO
          /\ new[1][Len(new[1])].created_by = user
          /\ new[1][Len(new[1])].assigned_to
                = (IF args.assign_to # NULL /\ args.assign_to # Some("")
                   THEN args.assign_to ELSE Some(user))
          /\ new[1][Len(new[1])].project
                = (IF args.project # "" THEN args.project ELSE ConfigProject)

\* A second ticket was made with the defaults, by another caller than the
\* first, which has been updated since and is as it was.
C18_Witness ==
    /\ handler = "new"
    /\ Len(ticket) = 2
    /\ ticket[2].assigned_to = Some(ticket[2].created_by)
    /\ ticket[2].project = ConfigProject
    /\ ticket[2].status = TODO
    /\ ticket[1].created_by # ticket[2].created_by
    /\ ticket[1].status = DONE

\* The searching ls invocations looked at: a search alone, with one filter,
\* and with all three.
SearchingLs ==
    {f \in [status : StatusArgs, search : SearchArgs \ {NULL},
            assigned_to : FilterArgs, created_by : FilterArgs] :
        \/ Cardinality({k \in {"status", "assigned_to", "created_by"} : f[k] # NULL}) <= 1
        \/ /\ f.status = Some(TODO)
           /\ f.assigned_to = Some("bob")
           /\ f.created_by = Some("alice")}

\* The rows at `rows` whose index entry matches the query.
Found(tbl, fts, search, rows) == {i \in rows : tbl[i].rowid \in FtsMatch(fts, search)}

====
